---- MODULE Spec2Model ----
(***************************************************************************)
(* The basket and order endpoints of the shop (shopapp/views.py) over the  *)
(* Cart / CartItem / Order tables (authapp/models.py, shopapp/models.py).  *)
(*                                                                         *)
(* Spec       : sequential requests, basket traffic: every View, Add and   *)
(*              Remove request, and Place requests with an empty list.     *)
(* SpecOrders : sequential requests, order traffic: Place with every       *)
(*              product list, baskets filled one unit at a time.           *)
(* SpecC      : the handlers of two concurrent requests of one user        *)
(*              interleave at their store reads and writes (no transaction *)
(*              wraps a handler).                                          *)
(***************************************************************************)
EXTENDS Integers, Sequences, FiniteSets

\* ---------------------------------------------------------------- bounds
MaxCount == 2      \* largest count a stored CartItem may reach in the model
MaxItemId == 2     \* CartItem primary keys handed out in one behaviour
MaxOrders == 1     \* Order rows created in one behaviour
MaxListLen == 2    \* length of the product list of a Place request

\* ------------------------------------------------------------- universe
Users == {"u1", "u2"}          \* authenticated users (request.user)
Products == {1, 2}             \* ids of the Product rows
ProductIds == {1, 2, 3}        \* ids a request may carry; 3 has no row
NoId == 0                      \* request.data.get('id') is None
Null == 0                      \* a NULL foreign key of an Order
Sessions == {"s1", "s2"}       \* client sessions (session cookies)
NoOrderId == 0                 \* the session has no 'orderId' key

\* --------------------------------------------------- program constants
HTTP_200_OK == 200
HTTP_201_CREATED == 201
HTTP_400_BAD_REQUEST == 400
HTTP_404_NOT_FOUND == 404
Unhandled == 500               \* an exception no handler catches
DefaultDeliveryId == 3
DefaultPaymentId == 3
DefaultStatusId == 7
ExpressDeliveryId == 1
OrdinaryDeliveryId == 2
SomeonePaymentId == 2
OnlinePaymentId == 1
PendingStatusId == 1
PaidStatusId == 3
PageSize == 10
MinRate == 1
MaxRate == 5

VARIABLES
    carts,        \* users that own a Cart row (Cart.user is one-to-one)
    cartItems,    \* CartItem rows: [id, cart, product, count]
    nextItemId,   \* next primary key of the CartItem table
    orders,       \* Order rows in creation order; the id is the position
    lookups,      \* ids present in DeliveryType / PaymentType / OrderStatus
    last,         \* the request just handled and its response (changed:
                  \* it changed a basket), until the client has read it
    undo,         \* history: the successful Add the client made last, with
                  \* the lines of its cart before it; or the session whose
                  \* order id the last request, a Pay GET, consumed, and
                  \* whether a Pay request of that session came next
    procs,        \* SpecC: the requests in flight
    session,      \* request.session['orderId'] of each client session
    catalog,      \* Product rows as the public reads see them:
                  \* id -> [price, archived, rating, reviews_count]
    reviews       \* Review rows in creation order: [product, rate]

vars == <<carts, cartItems, nextItemId, orders, lookups, last, undo, procs,
          session, catalog, reviews>>

store == <<carts, cartItems, nextItemId, orders, lookups>>

\* the session store and the tables of the catalog
shop == <<session, catalog, reviews>>

\* ------------------------------------------------------------ querysets
\* cart.items.all()
ItemsOf(items, cart) == {r \in items : r.cart = cart}

\* cart.items.filter(product=product)
Matching(items, cart, product) ==
    {r \in items : r.cart = cart /\ r.product = product}

\* QuerySet.first(): the row with the smallest primary key
First(rows) == CHOOSE r \in rows : \A s \in rows : r.id <= s.id

\* CartGETSerializer.get_count: the count of the product's row in the cart
GetCount(items, cart, product) ==
    IF Matching(items, cart, product) = {} THEN 0
    ELSE First(Matching(items, cart, product)).count

\* get_count uses cart.items.get(product=obj): more than one row raises
HasDuplicates(items, cart) ==
    \E r \in ItemsOf(items, cart) :
        Cardinality(Matching(items, cart, r.product)) > 1

\* the serialized basket: one entry per CartItem, annotated by get_count
CartBody(items, cart) ==
    {[id |-> r.product, count |-> GetCount(items, cart, r.product)] :
        r \in ItemsOf(items, cart)}

\* the lines of a cart as a mapping product -> count (0: no line)
CartMap(items, cart) == [p \in Products |-> GetCount(items, cart, p)]

\* the basket response built at the end of post and delete
BasketResponse(ok, items, cart) ==
    IF HasDuplicates(items, cart)
    THEN [status |-> Unhandled, body |-> {}]
    ELSE [status |-> ok, body |-> CartBody(items, cart)]

\* ------------------------------------------------------- store writes
\* CartItem.objects.create(cart=, product=, count=)
CreateItem(items, id, cart, product, count) ==
    items \cup {[id |-> id, cart |-> cart, product |-> product, count |-> count]}

\* mutant: the UPDATE is lost
MutSaveItem(items, row) == items

\* Model.save() of a loaded row: UPDATE by primary key, INSERT when no row
\* has that key any more
SaveItem(items, row) == {r \in items : r.id # row.id} \cup {row}

\* Model.delete() of a loaded row: DELETE by primary key
DeleteItem(items, id) == {r \in items : r.id # id}

\* mutant: the delete is not restricted to the requester's cart
MutClearCart(items, cart) == {}

\* cart.items.all().delete()
ClearCart(items, cart) == {r \in items : r.cart # cart}

\* mutant: the count is assigned instead of added
MutIncrementCount(k, c) == c

\* item.count += count
IncrementCount(k, c) == k + c

\* mutant: one unit is taken off whatever the request's count
MutNewCount(k, c) == k - 1

\* new_count = cart_item.count - int(count)
NewCount(k, c) == k - c

\* mutant: the product lookup is skipped
MutProductExists(p) == p \in ProductIds

\* Product.objects.get(id=...) finds a row
ProductExists(p) == p \in Products

\* ---------------------------------------------------- BasketAPIView.get
ViewResult(cs, items, u) ==
    IF u \notin cs
    THEN [status |-> Unhandled, body |-> {}]          \* Cart.DoesNotExist
    ELSE BasketResponse(HTTP_200_OK, items, u)

\* --------------------------------------------------- BasketAPIView.post
\* CartItemSerializer: count = IntegerField(min_value=1)
IsValidAdd(c) == c >= 1

AddResult(cs, items, nid, u, p, c) ==
    IF ~IsValidAdd(c) \/ ~ProductExists(p)
    THEN [status |-> HTTP_400_BAD_REQUEST, body |-> {},
          carts |-> cs, items |-> items, nextId |-> nid]
    ELSE
      LET rows == Matching(items, u, p)
          cs2 == cs \cup {u}                   \* Cart.objects.get_or_create
      IN IF Cardinality(rows) > 1
         THEN [status |-> Unhandled, body |-> {},   \* MultipleObjectsReturned
               carts |-> cs2, items |-> items, nextId |-> nid]
         ELSE
           LET items2 ==
                 IF rows = {}
                 THEN CreateItem(items, nid, u, p, c)
                 ELSE SaveItem(items,
                        [First(rows) EXCEPT
                           !.count = IncrementCount(First(rows).count, c)])
               resp == BasketResponse(HTTP_201_CREATED, items2, u)
           IN [status |-> resp.status, body |-> resp.body,
               carts |-> cs2, items |-> items2,
               nextId |-> IF rows = {} THEN nid + 1 ELSE nid]

\* ------------------------------------------------- BasketAPIView.delete
\* mutant: the filter on the product is dropped
MutFindCartItem(items, cart, product) == ItemsOf(items, cart)

\* cart.items.filter(product=product)
FindCartItem(items, cart, product) == Matching(items, cart, product)

\* mutant: the check for a negative result is missing
MutRemoveBranchNoCheck(items, row, n) ==
    IF n = 0 THEN [ok |-> TRUE, items |-> DeleteItem(items, row.id)]
    ELSE [ok |-> TRUE, items |-> SaveItem(items, [row EXCEPT !.count = n])]

\* mutant: a result of zero is persisted instead of deleting the row
MutRemoveBranchKeepZero(items, row, n) ==
    IF n < 0 THEN [ok |-> FALSE, items |-> items]
    ELSE [ok |-> TRUE, items |-> SaveItem(items, [row EXCEPT !.count = n])]

\* the branch on new_count: refuse, delete the row, or persist the new count
RemoveBranch(items, row, n) ==
    IF n < 0 THEN [ok |-> FALSE, items |-> items]
    ELSE IF n = 0 THEN [ok |-> TRUE, items |-> DeleteItem(items, row.id)]
    ELSE [ok |-> TRUE, items |-> SaveItem(items, [row EXCEPT !.count = n])]

RemoveResult(cs, items, u, p, c) ==
    IF u \notin cs
    THEN [status |-> HTTP_404_NOT_FOUND, body |-> {}, items |-> items]
    ELSE IF p = NoId
    THEN [status |-> HTTP_400_BAD_REQUEST, body |-> {}, items |-> items]
    ELSE IF ~ProductExists(p)
    THEN [status |-> HTTP_404_NOT_FOUND, body |-> {}, items |-> items]
    ELSE
      LET rows == FindCartItem(items, u, p)
      IN IF rows = {}
         THEN LET resp == BasketResponse(HTTP_200_OK, items, u)
              IN [status |-> resp.status, body |-> resp.body, items |-> items]
         ELSE
           LET b == RemoveBranch(items, First(rows),
                                 NewCount(First(rows).count, c))
               resp == BasketResponse(HTTP_200_OK, b.items, u)
           IN IF ~b.ok
              THEN [status |-> HTTP_400_BAD_REQUEST, body |-> {},
                    items |-> b.items]
              ELSE [status |-> resp.status, body |-> resp.body,
                    items |-> b.items]

\* ---------------------------------------------------- OrderAPIView.post
\* Order.objects.create(user=request.user)
NewOrder(u) ==
    [user |-> u, products |-> {}, status |-> Null, deliveryType |-> Null,
     paymentType |-> Null, totalCost |-> 0]

\* position of the first id of the list that has no Product row, 0 if none:
\* Product.objects.get raises Product.DoesNotExist there
FirstInvalid(list) ==
    IF \A i \in 1..Len(list) : ProductExists(list[i]) THEN 0
    ELSE CHOOSE i \in 1..Len(list) :
           /\ ~ProductExists(list[i])
           /\ \A j \in 1..(i - 1) : ProductExists(list[j])

\* the products order.products.add has attached when the loop ends or raises
Attached(list) ==
    IF FirstInvalid(list) = 0 THEN {list[i] : i \in 1..Len(list)}
    ELSE {list[i] : i \in 1..(FirstInvalid(list) - 1)}

\* get_object_or_404 on the three default lookup rows
DefaultsExist(lk) ==
    /\ DefaultDeliveryId \in lk.delivery
    /\ DefaultPaymentId \in lk.payment
    /\ DefaultStatusId \in lk.status

\* the Order row once the loop over the list has ended or raised
DraftOrder(u, list) == [NewOrder(u) EXCEPT !.products = Attached(list)]

\* the Order row once order.save() has stored the default lookup rows
SavedOrder(u, list) ==
    [DraftOrder(u, list) EXCEPT !.deliveryType = DefaultDeliveryId,
                                !.paymentType = DefaultPaymentId,
                                !.status = DefaultStatusId]

PlaceResult(cs, items, lk, u, list) ==
    LET draft == DraftOrder(u, list)
        saved == SavedOrder(u, list)
    IN IF FirstInvalid(list) # 0
       THEN [status |-> Unhandled, order |-> draft, items |-> items]
       ELSE IF ~DefaultsExist(lk)
       THEN [status |-> HTTP_404_NOT_FOUND, order |-> draft, items |-> items]
       ELSE IF u \notin cs                      \* user.cart raises
       THEN [status |-> Unhandled, order |-> saved, items |-> items]
       ELSE [status |-> HTTP_201_CREATED, order |-> saved,
             items |-> ClearCart(items, u)]

\* ------------------------------------------------------------- requests
AddCounts == 0..MaxCount
RemoveCounts == (0 - 1)..MaxCount

\* the product lists of a Place request
RECURSIVE ListsOfLen(_)
ListsOfLen(n) ==
    IF n = 0 THEN {<<>>}
    ELSE {Append(l, p) : l \in ListsOfLen(n - 1), p \in ProductIds}

ProductLists == UNION {ListsOfLen(n) : n \in 0..MaxListLen}

AllLookups == [delivery |-> {1, 2, 3}, payment |-> {1, 2, 3}, status |-> {1, 3, 7}]
NoLookups == [delivery |-> {}, payment |-> {}, status |-> {}]

\* the body of a Finalize request
NoPayload == [products |-> <<>>, deliveryType |-> "", paymentType |-> ""]

\* the query parameters of a catalog request
NoPage == [int |-> FALSE, n |-> 0]

\* request.GET.get('filter[minPrice]') is None
NoPrice == 0 - 1

NoQuery ==
    [minPrice |-> NoPrice, maxPrice |-> NoPrice, sort |-> <<>>,
     sortType |-> <<>>, page |-> NoPage]

NoRequest ==
    [op |-> "none", user |-> "u1", product |-> NoId, count |-> 0,
     list |-> <<>>, status |-> 0, body |-> {}, changed |-> FALSE,
     session |-> "s1", order |-> 0, payload |-> NoPayload,
     query |-> NoQuery, items |-> <<>>, currentPage |-> 0, lastPage |-> 0,
     rate |-> 0, email |-> FALSE]

NoUndo ==
    [phase |-> "none", user |-> "u1", product |-> NoId, count |-> 0,
     map |-> [p \in Products |-> 0], session |-> "s1", order |-> 0]

\* the requests in flight (SpecC)
ProcIds == {1, 2}

NoRow == [id |-> 0, cart |-> "u1", product |-> NoId, count |-> 0]

\* readId, read: the id and the count of the line item as the Add request
\* found it (history, kept until the request answers)
IdleProc ==
    [pc |-> "idle", op |-> "none", user |-> "u1", product |-> NoId,
     count |-> 0, row |-> NoRow, status |-> 0, readId |-> 0, read |-> 0]

\* Product.rating of a product without reviews (default=0)
ZeroRating == [num |-> 0, den |-> 1]

\* a Product row created with the defaults of its fields
DefaultProduct ==
    [price |-> 0, archived |-> FALSE, rating |-> ZeroRating,
     reviews_count |-> 0]

\* the tables are empty but for the products and, possibly, the lookup rows
EmptyTables ==
    /\ carts = {}
    /\ cartItems = {}
    /\ nextItemId = 1
    /\ orders = <<>>
    /\ reviews = <<>>
    /\ session = [s \in Sessions |-> NoOrderId]
    /\ last = NoRequest
    /\ undo = NoUndo
    /\ procs = [i \in ProcIds |-> IdleProc]

Init ==
    /\ EmptyTables
    /\ lookups \in {AllLookups, NoLookups}
    /\ catalog = [p \in Products |-> DefaultProduct]

\* ----------------------------------------------- sequential handlers
\* a client sends its next request once it has read the last response
Ready == last.op = "none"

View(u) ==
    LET r == ViewResult(carts, cartItems, u)
    IN /\ Ready
       /\ last' = [NoRequest EXCEPT !.op = "View", !.user = u,
                                    !.status = r.status, !.body = r.body]
       /\ undo' = NoUndo
       /\ UNCHANGED <<store, procs, shop>>

Add(u, p, c) ==
    LET r == AddResult(carts, cartItems, nextItemId, u, p, c)
    IN /\ Ready
       /\ r.nextId <= MaxItemId + 1
       /\ \A row \in r.items : row.count <= MaxCount
       /\ carts' = r.carts
       /\ cartItems' = r.items
       /\ nextItemId' = r.nextId
       /\ last' = [NoRequest EXCEPT !.op = "Add", !.user = u, !.product = p,
                                    !.count = c, !.status = r.status,
                                    !.body = r.body,
                                    !.changed = (<<r.carts, r.items>> #
                                                 <<carts, cartItems>>)]
       /\ undo' = IF r.status = HTTP_201_CREATED
                  THEN [phase |-> "added", user |-> u, product |-> p,
                        count |-> c, map |-> CartMap(cartItems, u)]
                  ELSE NoUndo
       /\ UNCHANGED <<orders, lookups, procs, shop>>

Remove(u, p, c) ==
    LET r == RemoveResult(carts, cartItems, u, p, c)
    IN /\ Ready
       /\ \A row \in r.items : row.count <= MaxCount
       /\ cartItems' = r.items
       /\ last' = [NoRequest EXCEPT !.op = "Remove", !.user = u,
                                    !.product = p, !.count = c,
                                    !.status = r.status, !.body = r.body,
                                    !.changed = (r.items # cartItems)]
       /\ undo' = IF /\ undo.phase = "added" /\ undo.user = u
                     /\ undo.product = p /\ undo.count = c
                  THEN [undo EXCEPT !.phase = "removed"]
                  ELSE NoUndo
       /\ UNCHANGED <<carts, nextItemId, orders, lookups, procs, shop>>

Place(u, list) ==
    LET r == PlaceResult(carts, cartItems, lookups, u, list)
    IN /\ Ready
       /\ Len(orders) < MaxOrders
       /\ orders' = Append(orders, r.order)
       /\ cartItems' = r.items
       /\ last' = [NoRequest EXCEPT !.op = "Place", !.user = u,
                                    !.list = list, !.status = r.status,
                                    !.changed = (r.items # cartItems)]
       /\ undo' = NoUndo
       /\ UNCHANGED <<carts, nextItemId, lookups, procs, shop>>

\* the client reads the response
Deliver ==
    /\ ~Ready
    /\ last' = NoRequest
    /\ undo' = IF undo.phase \in {"added", "consumed"} THEN undo ELSE NoUndo
    /\ UNCHANGED <<store, procs, shop>>

Next ==
    \/ \E u \in Users : View(u)
    \/ \E u \in Users, p \in ProductIds, c \in AddCounts : Add(u, p, c)
    \/ \E u \in Users, p \in ProductIds \cup {NoId}, c \in RemoveCounts :
          Remove(u, p, c)
    \/ \E u \in Users : Place(u, <<>>)
    \/ Deliver

\* the shop as deployed: the admin has filled the lookup tables
InitShop == Init /\ lookups = AllLookups

Spec == InitShop /\ [][Next]_vars

NextOrders ==
    \/ \E u \in Users : View(u)
    \/ \E u \in Users : Add(u, 1, 1)
    \/ \E u \in Users, list \in ProductLists : Place(u, list)
    \/ Deliver

SpecOrders == Init /\ [][NextOrders]_vars

\* ------------------------------------------- concurrent request handlers
\* Each step is one store access of a handler; the steps of the requests in
\* flight interleave freely.
\* the loaded row is a local of the handler: it is dropped once written
Goto(i, pc) == procs' = [procs EXCEPT ![i].pc = pc, ![i].row = NoRow]

Done(i, status) ==
    procs' = [procs EXCEPT ![i].pc = "done", ![i].status = status,
                           ![i].row = NoRow, ![i].readId = 0, ![i].read = 0]

\* a valid Add request arrives: the serializer accepts it, the product exists
StartAdd(i, u, p, c) ==
    /\ procs[i].pc = "idle"
    /\ IsValidAdd(c) /\ ProductExists(p)
    /\ procs' = [procs EXCEPT ![i] = [IdleProc EXCEPT !.pc = "add_cart",
                     !.op = "Add", !.user = u, !.product = p, !.count = c]]
    /\ UNCHANGED <<store, last, undo, shop>>

\* Cart.objects.get_or_create: the SELECT
AddGetCart(i) ==
    /\ procs[i].pc = "add_cart"
    /\ Goto(i, IF procs[i].user \in carts THEN "add_get" ELSE "add_newcart")
    /\ UNCHANGED <<store, last, undo, shop>>

\* Cart.objects.get_or_create: the INSERT; Cart.user is unique, so a Cart
\* inserted meanwhile makes it fall back to that row
AddCreateCart(i) ==
    /\ procs[i].pc = "add_newcart"
    /\ carts' = carts \cup {procs[i].user}
    /\ Goto(i, "add_get")
    /\ UNCHANGED <<cartItems, nextItemId, orders, lookups, last, undo, shop>>

\* item = cart.items.get(product=product)
AddGetItem(i) ==
    LET rows == Matching(cartItems, procs[i].user, procs[i].product)
    IN /\ procs[i].pc = "add_get"
       /\ procs' = IF rows = {} THEN [procs EXCEPT ![i].pc = "add_create"]
                   ELSE IF Cardinality(rows) > 1
                   THEN [procs EXCEPT ![i].pc = "done",
                                      ![i].status = Unhandled]
                   ELSE [procs EXCEPT ![i].pc = "add_save",
                                      ![i].row = First(rows),
                                      ![i].readId = First(rows).id,
                                      ![i].read = First(rows).count]
       /\ UNCHANGED <<store, last, undo, shop>>

\* item.count += count; item.save()
AddSave(i) ==
    LET n == IncrementCount(procs[i].row.count, procs[i].count)
    IN /\ procs[i].pc = "add_save"
       /\ n <= MaxCount
       /\ cartItems' = SaveItem(cartItems, [procs[i].row EXCEPT !.count = n])
       /\ Goto(i, "add_respond")
       /\ UNCHANGED <<carts, nextItemId, orders, lookups, last, undo, shop>>

\* CartItem.objects.create(cart=cart, product=product, count=count)
AddCreate(i) ==
    /\ procs[i].pc = "add_create"
    /\ nextItemId <= MaxItemId
    /\ cartItems' = CreateItem(cartItems, nextItemId, procs[i].user,
                               procs[i].product, procs[i].count)
    /\ nextItemId' = nextItemId + 1
    /\ Goto(i, "add_respond")
    /\ UNCHANGED <<carts, orders, lookups, last, undo, shop>>

\* the basket is read and serialized
AddRespond(i) ==
    /\ procs[i].pc = "add_respond"
    /\ Done(i, BasketResponse(HTTP_201_CREATED, cartItems,
                              procs[i].user).status)
    /\ UNCHANGED <<store, last, undo, shop>>

\* a Remove request with an id arrives
StartRemove(i, u, p, c) ==
    /\ procs[i].pc = "idle"
    /\ procs' = [procs EXCEPT ![i] = [IdleProc EXCEPT !.pc = "rm_cart",
                     !.op = "Remove", !.user = u, !.product = p, !.count = c]]
    /\ UNCHANGED <<store, last, undo, shop>>

\* cart = Cart.objects.get(user=user)
RemoveGetCart(i) ==
    /\ procs[i].pc = "rm_cart"
    /\ procs' = IF procs[i].user \in carts
                THEN [procs EXCEPT ![i].pc = "rm_find"]
                ELSE [procs EXCEPT ![i].pc = "done",
                                   ![i].status = HTTP_404_NOT_FOUND]
    /\ UNCHANGED <<store, last, undo, shop>>

\* the product lookup and cart.items.filter(product=product).first()
RemoveFind(i) ==
    LET rows == FindCartItem(cartItems, procs[i].user, procs[i].product)
    IN /\ procs[i].pc = "rm_find"
       /\ procs' = IF ~ProductExists(procs[i].product)
                   THEN [procs EXCEPT ![i].pc = "done",
                                      ![i].status = HTTP_404_NOT_FOUND]
                   ELSE IF rows = {}
                   THEN [procs EXCEPT ![i].pc = "rm_respond"]
                   ELSE [procs EXCEPT ![i].pc = "rm_write",
                                      ![i].row = First(rows)]
       /\ UNCHANGED <<store, last, undo, shop>>

\* the branch on new_count, on the row as it was loaded
RemoveWrite(i) ==
    LET b == RemoveBranch(cartItems, procs[i].row,
                          NewCount(procs[i].row.count, procs[i].count))
    IN /\ procs[i].pc = "rm_write"
       /\ \A r \in b.items : r.count <= MaxCount
       /\ cartItems' = b.items
       /\ IF b.ok THEN Goto(i, "rm_respond")
                  ELSE Done(i, HTTP_400_BAD_REQUEST)
       /\ UNCHANGED <<carts, nextItemId, orders, lookups, last, undo, shop>>

RemoveRespond(i) ==
    /\ procs[i].pc = "rm_respond"
    /\ Done(i, BasketResponse(HTTP_200_OK, cartItems, procs[i].user).status)
    /\ UNCHANGED <<store, last, undo, shop>>

\* a Place request with an empty list arrives
StartPlace(i, u) ==
    /\ procs[i].pc = "idle"
    /\ procs' = [procs EXCEPT ![i] = [IdleProc EXCEPT !.pc = "pl_order",
                     !.op = "Place", !.user = u]]
    /\ UNCHANGED <<store, last, undo, shop>>

\* the Order row is created, filled and saved
PlaceOrder(i) ==
    /\ procs[i].pc = "pl_order"
    /\ Len(orders) < MaxOrders
    /\ orders' = Append(orders, IF DefaultsExist(lookups)
                                THEN SavedOrder(procs[i].user, <<>>)
                                ELSE DraftOrder(procs[i].user, <<>>))
    /\ procs' = IF DefaultsExist(lookups)
                THEN [procs EXCEPT ![i].pc = "pl_cart"]
                ELSE [procs EXCEPT ![i].pc = "done",
                                   ![i].status = HTTP_404_NOT_FOUND]
    /\ UNCHANGED <<carts, cartItems, nextItemId, lookups, last, undo, shop>>

\* cart = user.cart
PlaceGetCart(i) ==
    /\ procs[i].pc = "pl_cart"
    /\ procs' = IF procs[i].user \in carts
                THEN [procs EXCEPT ![i].pc = "pl_clear"]
                ELSE [procs EXCEPT ![i].pc = "done",
                                   ![i].status = Unhandled]
    /\ UNCHANGED <<store, last, undo, shop>>

\* cart.items.all().delete()
PlaceClear(i) ==
    /\ procs[i].pc = "pl_clear"
    /\ cartItems' = ClearCart(cartItems, procs[i].user)
    /\ Done(i, HTTP_201_CREATED)
    /\ UNCHANGED <<carts, nextItemId, orders, lookups, last, undo, shop>>

\* the client reads the response
Finish(i) ==
    /\ procs[i].pc = "done"
    /\ procs' = [procs EXCEPT ![i] = IdleProc]
    /\ UNCHANGED <<store, last, undo, shop>>

\* the concurrent requests come from the sessions of one user: only they
\* share a basket
SharedUser == "u1"

NextC ==
    \E i \in ProcIds :
        \/ \E p \in Products, c \in 1..MaxCount :
              StartAdd(i, SharedUser, p, c)
        \/ AddGetCart(i)
        \/ AddCreateCart(i)
        \/ AddGetItem(i)
        \/ AddSave(i)
        \/ AddCreate(i)
        \/ AddRespond(i)
        \/ \E p \in Products : StartRemove(i, SharedUser, p, 1)
        \/ RemoveGetCart(i)
        \/ RemoveFind(i)
        \/ RemoveWrite(i)
        \/ RemoveRespond(i)
        \/ StartPlace(i, SharedUser)
        \/ PlaceOrder(i)
        \/ PlaceGetCart(i)
        \/ PlaceClear(i)
        \/ Finish(i)

SpecC ==
    /\ InitShop
    /\ [][NextC]_vars

\* ------------------------------------------------------------ checkout
\* SpecPay: sequential Place, Finalize and Pay requests from two sessions,
\* and the admin deleting an order.

\* the row an admin has deleted: its id is not handed out again
DeletedOrder == [NewOrder("deleted") EXCEPT !.products = {}]

\* Order.objects.get(pk=...) finds a row
OrderExists(os, id) == id \in 1..Len(os) /\ os[id] # DeletedOrder

\* DeliveryType.price of the lookup rows (set by the admin)
DeliveryPrice(id) ==
    IF id = ExpressDeliveryId THEN 5
    ELSE IF id = OrdinaryDeliveryId THEN 2
    ELSE 0

\* the loop over payload['products']: total_cost += price * count, a missing
\* price or count reads as 0
RECURSIVE ProductsCost(_)
ProductsCost(list) ==
    IF list = <<>> THEN 0
    ELSE Head(list).price * Head(list).count + ProductsCost(Tail(list))

\* mutant: the branches of the delivery type are swapped
MutSelectedDelivery(payload) ==
    IF payload.deliveryType = "express" THEN OrdinaryDeliveryId
    ELSE ExpressDeliveryId

\* payload.get('deliveryType') == 'express' selects row 1, anything else row 2
SelectedDelivery(payload) ==
    IF payload.deliveryType = "express" THEN ExpressDeliveryId
    ELSE OrdinaryDeliveryId

\* payload.get('paymentType') == 'someone' selects row 2, anything else row 1
SelectedPayment(payload) ==
    IF payload.paymentType = "someone" THEN SomeonePaymentId
    ELSE OnlinePaymentId

\* the lookup rows OrderDetailView.post reads with objects.get
FinalizeRowsExist(lk, payload) ==
    /\ SelectedDelivery(payload) \in lk.delivery
    /\ SelectedPayment(payload) \in lk.payment
    /\ PendingStatusId \in lk.status

\* the Order row as OrderDetailView.post saves it
FinalizedOrder(order, payload) ==
    [order EXCEPT
       !.deliveryType = SelectedDelivery(payload),
       !.paymentType = SelectedPayment(payload),
       !.status = PendingStatusId,
       !.totalCost = ProductsCost(payload.products) +
                     DeliveryPrice(SelectedDelivery(payload))]

\* mutant: the order is looked up by position without checking it is there
MutFinalizeTarget(os, id) == IF os = <<>> THEN 0 ELSE Len(os)

\* the row OrderDetailView.post works on, 0 when Order.DoesNotExist is raised
FinalizeTarget(os, id) == IF OrderExists(os, id) THEN id ELSE 0

\* OrderDetailView.post
FinalizeResult(os, lk, sess, s, id, payload) ==
    LET t == FinalizeTarget(os, id)
    IN IF t = 0
       THEN [status |-> HTTP_404_NOT_FOUND, orders |-> os, session |-> sess]
       ELSE IF ~FinalizeRowsExist(lk, payload)    \* DoesNotExist of a lookup
       THEN [status |-> Unhandled, orders |-> os, session |-> sess]
       ELSE [status |-> HTTP_201_CREATED,
             orders |-> [os EXCEPT ![t] = FinalizedOrder(os[t], payload)],
             session |-> [sess EXCEPT ![s] = t]]

\* mutant: the order id is read without being removed from the session
MutPopOrderId(sess, s) == sess

\* request.session.pop('orderId', None)
PopOrderId(sess, s) == [sess EXCEPT ![s] = NoOrderId]

\* PaymentView.get
PayGetResult(os, sess, s) ==
    IF sess[s] = NoOrderId
    THEN [status |-> HTTP_400_BAD_REQUEST, session |-> PopOrderId(sess, s)]
    ELSE IF OrderExists(os, sess[s])
    THEN [status |-> HTTP_200_OK, session |-> PopOrderId(sess, s)]
    ELSE [status |-> HTTP_404_NOT_FOUND, session |-> PopOrderId(sess, s)]

\* mutant: the payment also resets the total
MutPaidOrder(order) == [order EXCEPT !.status = PaidStatusId, !.totalCost = 0]

\* order.status = OrderStatus.objects.get(pk=3); order.save()
PaidOrder(order) == [order EXCEPT !.status = PaidStatusId]

\* mutant: without an id in the session the latest order is paid
MutPayPostResult(os, lk, sess, s) ==
    IF sess[s] = NoOrderId
    THEN IF OrderExists(os, Len(os))
         THEN [status |-> HTTP_200_OK,
               orders |-> [os EXCEPT ![Len(os)] = PaidOrder(os[Len(os)])]]
         ELSE [status |-> HTTP_400_BAD_REQUEST, orders |-> os]
    ELSE IF ~OrderExists(os, sess[s])
    THEN [status |-> HTTP_404_NOT_FOUND, orders |-> os]
    ELSE [status |-> HTTP_200_OK,
          orders |-> [os EXCEPT ![sess[s]] = PaidOrder(os[sess[s]])]]

\* PaymentView.post
PayPostResult(os, lk, sess, s) ==
    IF sess[s] = NoOrderId
    THEN [status |-> HTTP_400_BAD_REQUEST, orders |-> os]
    ELSE IF ~OrderExists(os, sess[s])
    THEN [status |-> HTTP_404_NOT_FOUND, orders |-> os]
    ELSE IF PaidStatusId \notin lk.status        \* OrderStatus.DoesNotExist
    THEN [status |-> Unhandled, orders |-> os]
    ELSE [status |-> HTTP_200_OK,
          orders |-> [os EXCEPT ![sess[s]] = PaidOrder(os[sess[s]])]]

\* the requests of the checkout
MaxPayloadLen == 2

PayloadItems == {[price |-> 3, count |-> 2], [price |-> 0, count |-> 1]}

RECURSIVE ItemListsOfLen(_)
ItemListsOfLen(n) ==
    IF n = 0 THEN {<<>>}
    ELSE {Append(l, e) : l \in ItemListsOfLen(n - 1), e \in PayloadItems}

\* the bodies of the Finalize requests; the 'someone' payment token is sent
\* with express delivery only, to keep the set of requests small
Payloads ==
    {pl \in [products : UNION {ItemListsOfLen(n) : n \in 0..MaxPayloadLen},
             deliveryType : {"express", "ordinary"},
             paymentType : {"someone", "online"}] :
        pl.paymentType = "someone" => pl.deliveryType = "express"}

OrderIds == 1..(MaxOrders + 1)

Finalize(s, id, payload) ==
    LET r == FinalizeResult(orders, lookups, session, s, id, payload)
    IN /\ Ready
       /\ orders' = r.orders
       /\ session' = r.session
       /\ last' = [NoRequest EXCEPT !.op = "Finalize", !.session = s,
                                    !.order = id, !.payload = payload,
                                    !.status = r.status]
       /\ undo' = NoUndo
       /\ UNCHANGED <<carts, cartItems, nextItemId, lookups, procs, catalog,
                      reviews>>

PayGet(s) ==
    LET r == PayGetResult(orders, session, s)
    IN /\ Ready
       /\ session' = r.session
       /\ last' = [NoRequest EXCEPT !.op = "PayGet", !.session = s,
                                    !.order = session[s],
                                    !.status = r.status]
       /\ undo' = IF undo.phase = "consumed" /\ undo.session = s
                  THEN [undo EXCEPT !.phase = "reread"]
                  ELSE IF r.status = HTTP_400_BAD_REQUEST THEN NoUndo
                  ELSE [NoUndo EXCEPT !.phase = "consumed", !.session = s,
                                      !.order = session[s]]
       /\ UNCHANGED <<store, procs, catalog, reviews>>

PayPost(s) ==
    LET r == PayPostResult(orders, lookups, session, s)
    IN /\ Ready
       /\ orders' = r.orders
       /\ last' = [NoRequest EXCEPT !.op = "PayPost", !.session = s,
                                    !.order = session[s],
                                    !.status = r.status]
       /\ undo' = IF undo.phase = "consumed" /\ undo.session = s
                  THEN [undo EXCEPT !.phase = "repost"]
                  ELSE NoUndo
       /\ UNCHANGED <<carts, cartItems, nextItemId, lookups, procs, shop>>

\* the admin deletes an order (OrderAdmin)
AdminDeleteOrder(id) ==
    /\ Ready
    /\ OrderExists(orders, id)
    /\ orders' = [orders EXCEPT ![id] = DeletedOrder]
    /\ UNCHANGED <<carts, cartItems, nextItemId, lookups, last, undo, procs,
                   shop>>

NextPay ==
    \/ Place(SharedUser, <<>>)
    \/ \E s \in Sessions, id \in OrderIds, payload \in Payloads :
          Finalize(s, id, payload)
    \/ \E s \in Sessions : PayGet(s)
    \/ \E s \in Sessions : PayPost(s)
    \/ \E id \in OrderIds : AdminDeleteOrder(id)
    \/ Deliver

SpecPay == Init /\ [][NextPay]_vars

\* ------------------------------------------------------------- catalog
\* SpecPages   : GET /catalog, sorted by id, page by page over tables of 0
\*               to MaxRows products.
\* SpecCatalog : GET /catalog with price filters and sorts and
\*               GET /product/{id} over MaxProducts products that the admin
\*               archives and restores.

\* the value of a sort field of a row
SortKey(rows, id, field) == IF field = "price" THEN rows[id].price ELSE id

\* mutant: the tokens mean what their names say
MutOrdering(q) ==
    LET n == IF Len(q.sort) < Len(q.sortType) THEN Len(q.sort)
             ELSE Len(q.sortType)
    IN SelectSeq([i \in 1..n |->
                    [field |-> q.sort[i],
                     desc |-> q.sortType[i] = "dec",
                     known |-> q.sortType[i] \in {"dec", "inc"}]],
                 LAMBDA o : o.known)

\* the ordering list built from zip(sort_fields, sort_types): 'dec' keeps the
\* field (ascending), 'inc' prefixes it with '-' (descending), any other
\* token drops the pair
Ordering(q) ==
    LET n == IF Len(q.sort) < Len(q.sortType) THEN Len(q.sort)
             ELSE Len(q.sortType)
    IN SelectSeq([i \in 1..n |->
                    [field |-> q.sort[i],
                     desc |-> q.sortType[i] = "inc",
                     known |-> q.sortType[i] \in {"dec", "inc"}]],
                 LAMBDA o : o.known)

\* order_by(*ordering): row a must come before row b
Before(rows, ord, a, b) ==
    \E k \in 1..Len(ord) :
        /\ \A j \in 1..(k - 1) :
               SortKey(rows, a, ord[j].field) = SortKey(rows, b, ord[j].field)
        /\ IF ord[k].desc
           THEN SortKey(rows, a, ord[k].field) > SortKey(rows, b, ord[k].field)
           ELSE SortKey(rows, a, ord[k].field) < SortKey(rows, b, ord[k].field)

\* the orders in which the database may return the rows: the ordering decides
\* between rows it tells apart, the order of the others is not specified
RECURSIVE Ordered(_, _, _)
Ordered(rows, ord, ids) ==
    IF ids = {} THEN {<<>>}
    ELSE UNION {{<<m>> \o t : t \in Ordered(rows, ord, ids \ {m})} :
                  m \in {x \in ids : \A y \in ids : ~Before(rows, ord, y, x)}}

\* CatalogAPIView.get_queryset: Product.objects.all()
CatalogQueryset(rows) == DOMAIN rows

\* the price filters of filter_queryset
Filtered(rows, q) ==
    {id \in CatalogQueryset(rows) :
        /\ q.minPrice # NoPrice => rows[id].price >= q.minPrice
        /\ q.maxPrice # NoPrice => rows[id].price <= q.maxPrice}

\* CatalogAPIView.filter_queryset: the possible results, as sequences of ids
FilterQueryset(rows, q) == Ordered(rows, Ordering(q), Filtered(rows, q))

\* mutant: one page more than the full pages
MutNumPages(count) == count \div PageSize + 1

\* Paginator.num_pages (allow_empty_first_page, no orphans):
\* ceil(max(1, count) / per_page)
NumPages(count) ==
    ((IF count > 1 THEN count ELSE 1) + PageSize - 1) \div PageSize

\* mutant: a page beyond the last one reads as the first page
MutPageNumber(count, page) ==
    IF ~page.int THEN 1
    ELSE IF page.n < 1 THEN NumPages(count)
    ELSE IF page.n > NumPages(count) THEN 1
    ELSE page.n

\* Paginator.get_page: a number that is not an integer gives page 1, one
\* below 1 or above num_pages gives the last page
PageNumber(count, page) ==
    IF ~page.int THEN 1
    ELSE IF page.n < 1 THEN NumPages(count)
    ELSE IF page.n > NumPages(count) THEN NumPages(count)
    ELSE page.n

\* Paginator.page(number).object_list
PageItems(result, number) ==
    LET bottom == (number - 1) * PageSize
        top == IF bottom + PageSize >= Len(result) THEN Len(result)
               ELSE bottom + PageSize
    IN SubSeq(result, bottom + 1, top)

\* CatalogAPIView.get: the possible responses
CatalogResults(rows, q) ==
    {[items |-> PageItems(res, PageNumber(Len(res), q.page)),
      currentPage |-> PageNumber(Len(res), q.page),
      lastPage |-> NumPages(Len(res))] : res \in FilterQueryset(rows, q)}

\* ProductAPIView.retrieve: get_object over filter(archived=False, id=pk)
ProductResult(rows, p) ==
    IF p \in DOMAIN rows /\ ~rows[p].archived THEN HTTP_200_OK
    ELSE HTTP_404_NOT_FOUND

Catalog(q) ==
    /\ Ready
    /\ \E r \in CatalogResults(catalog, q) :
          last' = [NoRequest EXCEPT !.op = "Catalog", !.query = q,
                                    !.status = HTTP_200_OK,
                                    !.items = r.items,
                                    !.currentPage = r.currentPage,
                                    !.lastPage = r.lastPage]
    /\ undo' = NoUndo
    /\ UNCHANGED <<store, procs, shop>>

ProductDetail(p) ==
    /\ Ready
    /\ last' = [NoRequest EXCEPT !.op = "Product", !.product = p,
                                 !.status = ProductResult(catalog, p)]
    /\ undo' = NoUndo
    /\ UNCHANGED <<store, procs, shop>>

\* the admin archives or restores a product (ProductAdmin)
AdminSetArchived(p, b) ==
    /\ Ready
    /\ p \in DOMAIN catalog
    /\ catalog[p].archived # b
    /\ catalog' = [catalog EXCEPT ![p].archived = b]
    /\ UNCHANGED <<store, last, undo, procs, session, reviews>>

\* the requests of the catalog
MaxRows == 21          \* products in the table of SpecPages
MaxPage == 4           \* largest page number requested
MaxProducts == 3       \* products in the table of SpecCatalog

PageParams == {NoPage} \cup {[int |-> TRUE, n |-> k] : k \in (0 - 1)..MaxPage}

\* sort=id with either direction token: the order of the result is total
PageQueries ==
    {[NoQuery EXCEPT !.sort = <<"id">>, !.sortType = <<t>>, !.page = pg] :
        t \in {"dec", "inc"}, pg \in PageParams}

InitPages ==
    /\ EmptyTables
    /\ lookups = AllLookups
    /\ catalog \in {[id \in 1..n |-> DefaultProduct] : n \in 0..MaxRows}

NextPages ==
    \/ \E q \in PageQueries : Catalog(q)
    \/ Deliver

SpecPages == InitPages /\ [][NextPages]_vars

Prices == {100, 150, 250}

\* sort and sortType as sent together; "asc" is a token the view ignores
Sorts ==
    {[sort |-> <<>>, sortType |-> <<>>]}
    \cup {[sort |-> <<"price">>, sortType |-> <<t>>] :
            t \in {"dec", "inc", "asc"}}
    \cup {[sort |-> <<"price", "id">>, sortType |-> <<t, u>>] :
            t \in {"dec", "inc"}, u \in {"dec", "inc"}}

CatalogQueries ==
    {[minPrice |-> lo, maxPrice |-> hi, sort |-> st.sort,
      sortType |-> st.sortType, page |-> pg] :
        lo \in {NoPrice, 100}, hi \in {NoPrice, 200}, st \in Sorts,
        pg \in {NoPage, [int |-> TRUE, n |-> 2]}}

InitCatalog ==
    /\ EmptyTables
    /\ lookups = AllLookups
    /\ catalog \in {[id \in 1..MaxProducts |->
                       [DefaultProduct EXCEPT !.price = f[id]]] :
                    f \in [1..MaxProducts -> Prices]}

NextCatalog ==
    \/ \E q \in CatalogQueries : Catalog(q)
    \/ \E p \in 1..(MaxProducts + 1) : ProductDetail(p)
    \/ \E p \in 1..MaxProducts, b \in BOOLEAN : AdminSetArchived(p, b)
    \/ Deliver

SpecCatalog == InitCatalog /\ [][NextCatalog]_vars

\* ------------------------------------------------------------- reviews
\* SpecReviews: sequential POST /product/{id}/reviews requests.

RECURSIVE GCD(_, _)
GCD(a, b) == IF b = 0 THEN a ELSE GCD(b, a % b)

\* a quotient as a number: the fraction in lowest terms
Quotient(sum, n) ==
    [num |-> sum \div GCD(sum, n), den |-> n \div GCD(sum, n)]

\* mutant: the reviews are not restricted to the product
MutReviewsOf(revs, p) == revs

\* product.reviews: the Review rows of the product
ReviewsOf(revs, p) == SelectSeq(revs, LAMBDA r : r.product = p)

RECURSIVE SumRates(_)
SumRates(revs) ==
    IF revs = <<>> THEN 0 ELSE Head(revs).rate + SumRates(Tail(revs))

\* Product.calculate_reviews_count: self.reviews.count()
CalculateReviewsCount(revs, p) == Len(ReviewsOf(revs, p))

\* Product.average_rating: Avg('rate') over the reviews of the product (of
\* which there is at least one when it is called)
AverageRating(revs, p) ==
    Quotient(SumRates(ReviewsOf(revs, p)), Len(ReviewsOf(revs, p)))

\* update_product_fields (post_save of Review), and again the view after
\* review.save(): both aggregates are recomputed and the product is saved
UpdateProductFields(row, revs, p) ==
    [row EXCEPT !.reviews_count = CalculateReviewsCount(revs, p),
                !.rating = AverageRating(revs, p)]

\* ReviewSerializer: the validators of Review.rate
IsValidRate(rate) == rate >= MinRate /\ rate <= MaxRate

\* ReviewViewSet.create; the view reads validated_data['email'], which is
\* missing when the request has no email
ReviewResult(rows, revs, p, rate, email) ==
    IF p \notin DOMAIN rows
    THEN [status |-> HTTP_404_NOT_FOUND, rows |-> rows, reviews |-> revs]
    ELSE IF ~IsValidRate(rate)
    THEN [status |-> HTTP_400_BAD_REQUEST, rows |-> rows, reviews |-> revs]
    ELSE IF ~email                                             \* KeyError
    THEN [status |-> Unhandled, rows |-> rows, reviews |-> revs]
    ELSE
      LET revs2 == Append(revs, [product |-> p, rate |-> rate])
      IN [status |-> HTTP_201_CREATED,
          rows |-> [rows EXCEPT ![p] = UpdateProductFields(@, revs2, p)],
          reviews |-> revs2]

MaxReviews == 3        \* Review rows created in one behaviour

Rates == (MinRate - 1)..(MaxRate + 1)

CreateReview(p, rate, email) ==
    LET r == ReviewResult(catalog, reviews, p, rate, email)
    IN /\ Ready
       /\ Len(reviews) < MaxReviews
       /\ catalog' = r.rows
       /\ reviews' = r.reviews
       /\ last' = [NoRequest EXCEPT !.op = "Review", !.product = p,
                                    !.rate = rate, !.email = email,
                                    !.status = r.status]
       /\ undo' = NoUndo
       /\ UNCHANGED <<store, procs, session>>

NextReviews ==
    \/ \E p \in ProductIds, rate \in Rates, email \in BOOLEAN :
          CreateReview(p, rate, email)
    \/ Deliver

SpecReviews == InitShop /\ [][NextReviews]_vars

\* ===================================================================
\* Claims
\* ===================================================================

\* at most one CartItem per (cart, product)
UniqueLines(items) ==
    \A r \in items : Cardinality(Matching(items, r.cart, r.product)) = 1

\* C1: Add(p, c) with an existing product p and c >= 1 succeeds and leaves
\* exactly one line item for p in the requester's cart, whose count is the
\* count before the request (0 when the cart had no line for p) plus c; a run
\* of Add requests for p therefore sums their counts.
C1_AddSumsCounts ==
    (last.op = "Add" /\ last.product \in Products /\ last.count >= 1) =>
        /\ last.status = HTTP_201_CREATED
        /\ undo.phase = "added"
        /\ Cardinality(Matching(cartItems, last.user, last.product)) = 1
        /\ GetCount(cartItems, last.user, last.product) =
               undo.map[last.product] + last.count

\* an Add that incremented a line item that was already there
C1_Witness ==
    /\ last.op = "Add" /\ last.status = HTTP_201_CREATED
    /\ undo.phase = "added" /\ undo.map[last.product] >= 1
    /\ GetCount(cartItems, last.user, last.product) > last.count

\* C2: Remove(p, c) on a cart whose line item for p has count k < c fails with
\* 400 (count cannot be negative) and leaves every stored CartItem unchanged.
C2_RemoveBelowZeroRefused ==
    [][(/\ Ready /\ last'.op = "Remove"
        /\ Matching(cartItems, last'.user, last'.product) # {}
        /\ GetCount(cartItems, last'.user, last'.product) < last'.count)
       => (/\ last'.status = HTTP_400_BAD_REQUEST
           /\ cartItems' = cartItems
           /\ carts' = carts)]_vars

\* a refused Remove of more units than the line item holds
C2_Witness ==
    /\ last.op = "Remove" /\ last.status = HTTP_400_BAD_REQUEST
    /\ Matching(cartItems, last.user, last.product) # {}
    /\ GetCount(cartItems, last.user, last.product) < last.count

\* C3: Add(p, c) followed immediately by Remove(p, c) of the same user leaves
\* the lines of the user's cart (product -> count) as they were before the
\* Add, with no line for a product that had none.
C3_AddThenRemoveRestores ==
    undo.phase = "removed" =>
        /\ CartMap(cartItems, undo.user) = undo.map
        /\ \A p \in Products :
               Cardinality(Matching(cartItems, undo.user, p)) =
                   (IF undo.map[p] = 0 THEN 0 ELSE 1)

\* the round trip on a product that had a line item, next to another product
C3_Witness ==
    /\ undo.phase = "removed" /\ last.op = "Remove"
    /\ undo.map[undo.product] >= 1
    /\ \E p \in Products : p # undo.product /\ undo.map[p] >= 1

\* C4: Remove(p, c) by a user who has a cart, for an existing product p with no
\* line item in that cart, succeeds, changes no stored CartItem and returns
\* the cart's contents as they are.
C4_RemoveAbsentIsNoOp ==
    [][(/\ Ready /\ last'.op = "Remove"
        /\ last'.user \in carts /\ last'.product \in Products
        /\ Matching(cartItems, last'.user, last'.product) = {})
       => (/\ last'.status = HTTP_200_OK
           /\ cartItems' = cartItems
           /\ carts' = carts
           /\ last'.body = CartBody(cartItems, last'.user))]_vars

\* a Remove of a product without a line item from a cart that holds another
C4_Witness ==
    /\ last.op = "Remove" /\ last.status = HTTP_200_OK /\ ~last.changed
    /\ last.product \in Products /\ last.user \in carts
    /\ Matching(cartItems, last.user, last.product) = {}
    /\ ItemsOf(cartItems, last.user) # {}

\* C5: every stored CartItem has count >= 1, and no basket response reports a
\* product with count 0.
C5_CountsPositive ==
    /\ \A r \in cartItems : r.count >= 1
    /\ \A e \in last.body : e.count >= 1

\* a Remove whose result was exactly zero: the row is gone
C5_Witness ==
    /\ last.op = "Remove" /\ last.status = HTTP_200_OK /\ last.changed
    /\ last.count >= 1
    /\ Matching(cartItems, last.user, last.product) = {}

\* C6 as stated: at most one CartItem per (cart, product) pair in every
\* reachable state, for every interleaving of the store accesses of Add,
\* Remove and Place requests.
C6_UniqueCartProduct == UniqueLines(cartItems)

C8_PlaceClearsOwnCart ==
    [][(Ready /\ last'.op = "Place" /\ last'.status = HTTP_201_CREATED)
       => (/\ ItemsOf(cartItems', last'.user) = {}
           /\ ViewResult(carts', cartItems', last'.user) =
                  [status |-> HTTP_200_OK, body |-> {}]
           /\ last'.user \in carts'
           /\ carts' = carts
           /\ \A v \in Users \ {last'.user} :
                  ItemsOf(cartItems', v) = ItemsOf(cartItems, v))]_vars

\* a Place that emptied a basket while another user's basket holds items
C8_Witness ==
    /\ last.op = "Place" /\ last.status = HTTP_201_CREATED /\ last.changed
    /\ \E v \in Users \ {last.user} : ItemsOf(cartItems, v) # {}

\* C9 as stated: Place with an empty product list succeeds for every user in
\* every reachable state and persists an Order with no line items and
\* totalCost 0.
C9_EmptyPlaceSucceeds ==
    (last.op = "Place" /\ last.list = <<>>) =>
        /\ last.status = HTTP_201_CREATED
        /\ orders # <<>>
        /\ orders[Len(orders)].products = {}
        /\ orders[Len(orders)].totalCost = 0

\* C10 as stated: Place with a list in which some id has no Product row fails
\* with 404, wherever the id stands in the list.
C10_PlaceMissingProductNotFound ==
    (last.op = "Place" /\ \E i \in 1..Len(last.list) :
                              last.list[i] \notin Products)
        => last.status = HTTP_404_NOT_FOUND

\* the sum over a payload's product list of price x count
RECURSIVE PayloadSum(_, _)
PayloadSum(list, n) ==
    IF n = 0 THEN 0
    ELSE PayloadSum(list, n - 1) + list[n].price * list[n].count

\* C11: Finalize(orderId, payload) on an existing order, the lookup rows
\* being in place, succeeds and leaves the order with totalCost equal to the
\* sum over the payload's product list of price x count plus the price of the
\* delivery row selected (row 1 for "express", row 2 for any other value),
\* whatever its totalCost was, and with the pending-payment status (row 1).
C11_FinalizeSetsTotalAndStatus ==
    (/\ last.op = "Finalize"
     /\ OrderExists(orders, last.order)
     /\ lookups = AllLookups)
    => /\ last.status = HTTP_201_CREATED
       /\ orders[last.order].totalCost =
              PayloadSum(last.payload.products, Len(last.payload.products))
              + (IF last.payload.deliveryType = "express"
                 THEN DeliveryPrice(1) ELSE DeliveryPrice(2))
       /\ orders[last.order].deliveryType =
              (IF last.payload.deliveryType = "express" THEN 1 ELSE 2)
       /\ orders[last.order].status = 1

\* an express Finalize with two products, one of them with a price
C11_Witness ==
    /\ last.op = "Finalize" /\ last.status = HTTP_201_CREATED
    /\ Len(last.payload.products) = 2
    /\ last.payload.deliveryType = "express"
    /\ orders[last.order].totalCost > DeliveryPrice(1)

\* C12: Finalize with an order id that refers to no Order row fails with 404
\* and changes nothing: no Order is created or modified and the order id
\* stored in the session is left as it was.
C12_FinalizeMissingOrderNotFound ==
    [][(Ready /\ last'.op = "Finalize" /\ ~OrderExists(orders, last'.order))
       => (/\ last'.status = HTTP_404_NOT_FOUND
           /\ orders' = orders
           /\ session' = session
           /\ store' = store)]_vars

\* a refused Finalize in a session that holds the id of another order
C12_Witness ==
    /\ last.op = "Finalize" /\ last.status = HTTP_404_NOT_FOUND
    /\ session[last.session] # NoOrderId
    /\ session[last.session] # last.order
    /\ OrderExists(orders, session[last.session])

\* C13: Pay via GET is read-once on the session. It fails with 400 when the
\* session holds no order id; otherwise it removes the id from the session
\* and answers 200, or 404 if that order no longer exists; it changes no
\* order and no other session. Only a successful Finalize of the session
\* stores an id again, so a GET that follows a GET of the same session with
\* no Finalize in between fails with 400.
C13_PayGetReadOnce ==
    [][/\ (Ready /\ last'.op = "PayGet") =>
            /\ orders' = orders
            /\ \A s \in Sessions \ {last'.session} : session'[s] = session[s]
            /\ session'[last'.session] = NoOrderId
            /\ last'.status =
                 (IF session[last'.session] = NoOrderId
                  THEN HTTP_400_BAD_REQUEST
                  ELSE IF OrderExists(orders, session[last'.session])
                  THEN HTTP_200_OK
                  ELSE HTTP_404_NOT_FOUND)
       /\ \A s \in Sessions :
            (session[s] = NoOrderId /\ session'[s] # NoOrderId) =>
                /\ last'.op = "Finalize" /\ last'.session = s
                /\ last'.status = HTTP_201_CREATED
       /\ undo'.phase = "reread" => last'.status = HTTP_400_BAD_REQUEST
      ]_vars

\* the second of two GETs of a session, the first of which was served
C13_Witness ==
    /\ last.op = "PayGet" /\ last.status = HTTP_400_BAD_REQUEST
    /\ undo.phase = "reread" /\ undo.session = last.session
    /\ \E id \in 1..Len(orders) : orders[id].status = PendingStatusId

\* C14: Pay via POST in a session that holds the id of an existing order
\* sets the status of that order to the paid row (3) and changes no other
\* field of it and no other order; it fails with 400 and changes no order
\* when the session holds no order id, and fails with 404 and changes no
\* order when the stored id refers to an order that no longer exists.
C14_PayPostSetsPaid ==
    [][(Ready /\ last'.op = "PayPost") =>
         LET id == session[last'.session]
         IN IF id = NoOrderId
            THEN last'.status = HTTP_400_BAD_REQUEST /\ orders' = orders
            ELSE IF ~OrderExists(orders, id)
            THEN last'.status = HTTP_404_NOT_FOUND /\ orders' = orders
            ELSE /\ last'.status = HTTP_200_OK
                 /\ orders' = [orders EXCEPT ![id].status = 3]
      ]_vars

\* a paid order that keeps the total and the delivery of its Finalize
C14_Witness ==
    /\ last.op = "PayPost" /\ last.status = HTTP_200_OK
    /\ orders[last.order].status = PaidStatusId
    /\ orders[last.order].totalCost > DeliveryPrice(1)
    /\ orders[last.order].deliveryType = ExpressDeliveryId

\* a Pay POST refused because the admin has deleted the order of the session
C14_WitnessDeleted ==
    /\ last.op = "PayPost" /\ last.status = HTTP_404_NOT_FOUND
    /\ last.order # NoOrderId

\* the products that match the price filters of the last catalog request
Matches ==
    {id \in DOMAIN catalog :
        /\ last.query.minPrice # NoPrice =>
               catalog[id].price >= last.query.minPrice
        /\ last.query.maxPrice # NoPrice =>
               catalog[id].price <= last.query.maxPrice}

\* C15 as stated: for every number N >= 0 of matching products the lastPage
\* of GET /catalog is ceil(N / 10).
C15_LastPageIsCeiling ==
    last.op = "Catalog" =>
        last.lastPage = (Cardinality(Matches) + 9) \div 10

\* C15 (amended): for N >= 1 matching products the lastPage of GET /catalog
\* is ceil(N / 10), also when N is a multiple of 10; for N = 0 lastPage is 1
\* and that page is empty.
C15_LastPageAtLeastOne ==
    last.op = "Catalog" =>
        IF Matches = {}
        THEN last.lastPage = 1 /\ last.items = <<>>
        ELSE last.lastPage = (Cardinality(Matches) + 9) \div 10

\* the catalog of a shop without products
C15_Witness ==
    /\ last.op = "Catalog" /\ last.status = HTTP_200_OK
    /\ Matches = {}
    /\ last.lastPage = 1 /\ last.currentPage = 1

\* a second page that is exactly full
C15_WitnessFull ==
    /\ last.op = "Catalog" /\ Cardinality(Matches) = 20
    /\ last.lastPage = 2 /\ last.currentPage = 2 /\ Len(last.items) = 10

\* the page GET /catalog shows for a requested page number >= 1
ShownPage == IF last.query.page.n > last.lastPage THEN last.lastPage
             ELSE last.query.page.n

\* the id at a position of the result sorted by id: 'dec' counts up, 'inc'
\* counts down
IdAt(pos) ==
    IF last.query.sortType = <<"dec">> THEN pos
    ELSE Cardinality(Matches) - pos + 1

\* C16: for a requested page number greater than lastPage GET /catalog
\* returns the items of the last page and reports currentPage = lastPage; for
\* a page number within 1..lastPage it reports that page and returns exactly
\* the items at positions 10*(page-1)+1 .. min(10*page, N) of the filtered,
\* sorted result (here: the products sorted by id).
C16_PageClampsAndSlices ==
    (/\ last.op = "Catalog" /\ last.query.sort = <<"id">>
     /\ last.query.page.int /\ last.query.page.n >= 1)
    => LET from == 10 * (ShownPage - 1) + 1
           to == IF 10 * ShownPage < Cardinality(Matches)
                 THEN 10 * ShownPage ELSE Cardinality(Matches)
       IN /\ last.currentPage = ShownPage
          /\ Len(last.items) = (IF to >= from THEN to - from + 1 ELSE 0)
          /\ \A k \in 1..Len(last.items) :
                 last.items[k] = IdAt(from + k - 1)

\* a request beyond the last page, which holds a single product
C16_Witness ==
    /\ last.op = "Catalog" /\ last.query.page.int
    /\ last.query.page.n > last.lastPage
    /\ last.lastPage = 3 /\ last.currentPage = 3
    /\ Len(last.items) = 1

\* the composite ordering asked for puts row a strictly before row b, reading
\* 'dec' as ascending and 'inc' as descending
AskedBefore(a, b) ==
    \E k \in 1..Len(last.query.sort) :
        /\ \A j \in 1..(k - 1) :
               SortKey(catalog, a, last.query.sort[j]) =
                   SortKey(catalog, b, last.query.sort[j])
        /\ \/ /\ last.query.sortType[k] = "dec"
              /\ SortKey(catalog, a, last.query.sort[k]) <
                     SortKey(catalog, b, last.query.sort[k])
           \/ /\ last.query.sortType[k] = "inc"
              /\ SortKey(catalog, a, last.query.sort[k]) >
                     SortKey(catalog, b, last.query.sort[k])

\* C17: the catalog returns exactly the products whose price lies within the
\* given bounds, each once, ordered by the composite of the given (field,
\* direction) pairs in order, where the token 'dec' means ascending on the
\* field and 'inc' descending.
C17_SortTokensInverted ==
    (/\ last.op = "Catalog"
     /\ \A k \in 1..Len(last.query.sortType) :
            last.query.sortType[k] \in {"dec", "inc"})
    => /\ {last.items[i] : i \in 1..Len(last.items)} = Matches
       /\ Len(last.items) = Cardinality(Matches)
       /\ \A i \in 1..Len(last.items) : \A j \in (i + 1)..Len(last.items) :
              ~AskedBefore(last.items[j], last.items[i])

\* minPrice 100, maxPrice 200, sort=price, sortType=inc over products priced
\* 100, 150 and 250: the answer is the product at 150, then the one at 100
C17_Witness ==
    /\ last.op = "Catalog"
    /\ last.query.minPrice = 100 /\ last.query.maxPrice = 200
    /\ last.query.sort = <<"price">> /\ last.query.sortType = <<"inc">>
    /\ Len(last.items) = 2
    /\ catalog[last.items[1]].price = 150
    /\ catalog[last.items[2]].price = 100
    /\ \E id \in DOMAIN catalog : catalog[id].price = 250

\* C18 as stated: no public read returns an archived product: no item of a
\* GET /catalog page is archived, and GET /product/{id} of an archived
\* product does not return it.
C18_NoArchivedInPublicReads ==
    /\ last.op = "Catalog" =>
           \A i \in 1..Len(last.items) : ~catalog[last.items[i]].archived
    /\ (/\ last.op = "Product" /\ last.product \in DOMAIN catalog
        /\ catalog[last.product].archived)
       => last.status = HTTP_404_NOT_FOUND

\* GET /product/{id} of an archived product answers 404
C18_ProductDetailHidesArchived ==
    (/\ last.op = "Product" /\ last.product \in DOMAIN catalog
     /\ catalog[last.product].archived)
    => last.status = HTTP_404_NOT_FOUND

\* the sum of the rates of the first n reviews that are about product p
RECURSIVE RateSum(_, _)
RateSum(p, n) ==
    IF n = 0 THEN 0
    ELSE RateSum(p, n - 1) +
         (IF reviews[n].product = p THEN reviews[n].rate ELSE 0)

\* the number of reviews about product p
RateCount(p) == Cardinality({n \in 1..Len(reviews) : reviews[n].product = p})

\* the stored aggregates of every product are those of its reviews
AggregatesMatch ==
    \A p \in DOMAIN catalog :
        /\ catalog[p].reviews_count = RateCount(p)
        /\ catalog[p].rating.den >= 1
        /\ catalog[p].rating.num * RateCount(p) =
               RateSum(p, Len(reviews)) * catalog[p].rating.den
        /\ RateCount(p) = 0 => catalog[p].rating.num = 0

\* C19: after any sequence of successful review creations every Product's
\* stored reviewsCount equals the number of its reviews and its stored rating
\* times reviewsCount equals the sum of its reviews' rates (the rating is the
\* unweighted mean, 0 without reviews); creating a review for product p
\* leaves the row of every other product unchanged.
C19_AggregatesTrackReviews ==
    /\ []AggregatesMatch
    /\ [][(Ready /\ last'.op = "Review") =>
             \A q \in DOMAIN catalog :
                 q # last'.product => catalog'[q] = catalog[q]]_vars

\* the rates 4, 5, 3 for one product: rating 4 and reviewsCount 3
C19_Witness ==
    /\ last.op = "Review" /\ last.status = HTTP_201_CREATED
    /\ reviews = <<[product |-> last.product, rate |-> 4],
                   [product |-> last.product, rate |-> 5],
                   [product |-> last.product, rate |-> 3]>>
    /\ catalog[last.product].rating = [num |-> 4, den |-> 1]
    /\ catalog[last.product].reviews_count = 3

\* a mean that is not an integer, next to a product with a review of its own
C19_WitnessMean ==
    /\ last.op = "Review" /\ last.status = HTTP_201_CREATED
    /\ catalog[last.product].rating = [num |-> 9, den |-> 2]
    /\ \E q \in DOMAIN catalog :
           q # last.product /\ catalog[q].reviews_count = 1

\* two Add requests of one user for one product have both written, each
\* having found the same line item with count k
BothReadThenWrote(i, j, k) ==
    /\ i # j
    /\ procs[i].op = "Add" /\ procs[j].op = "Add"
    /\ procs[i].user = procs[j].user /\ procs[i].product = procs[j].product
    /\ procs[i].readId = procs[j].readId
    /\ procs[i].pc = "add_respond" /\ procs[j].pc = "add_respond"
    /\ procs[i].read = k /\ procs[j].read = k

\* C20: Add is not atomic. When two concurrent Add(p, c1) and Add(p, c2)
\* requests of one user on a cart that holds p with count k >= 1 both read
\* the count k before either writes, the count stored once both have written
\* is k + c1 or k + c2 and not k + c1 + c2: one update is lost. The witness
\* shows that such an interleaving is reachable.
C20_ConcurrentAddLosesUpdate ==
    \A i \in ProcIds, j \in ProcIds, k \in 1..(MaxCount + 1) :
        BothReadThenWrote(i, j, k) =>
            LET stored == GetCount(cartItems, procs[i].user, procs[i].product)
            IN /\ Cardinality(Matching(cartItems, procs[i].user,
                                       procs[i].product)) = 1
               /\ stored \in {k + procs[i].count, k + procs[j].count}
               /\ stored # k + procs[i].count + procs[j].count

\* both requests have saved, are about to answer 201, and the line item
\* counts one of them only
C20_Witness ==
    \E i \in ProcIds, j \in ProcIds, k \in 1..MaxCount :
        /\ BothReadThenWrote(i, j, k)
        /\ BasketResponse(HTTP_201_CREATED, cartItems, procs[i].user).status
               = HTTP_201_CREATED
        /\ GetCount(cartItems, procs[i].user, procs[i].product) =
               k + procs[i].count

\* C21 as stated: every failure of a cart or order operation (View, Add,
\* Remove, Place, Finalize, Pay) ends in an error response with an HTTP error
\* status; none propagates as an unhandled fault.
C21_NoUnhandledFault ==
    last.op \in {"View", "Add", "Remove", "Place", "Finalize", "PayGet",
                 "PayPost"}
        => last.status # Unhandled

\* C22 as stated: paid is a terminal status: once the status of an Order is
\* the paid row (3), no Place, Finalize or Pay request of any session changes
\* the status or the totalCost of that order.
C22_PaidIsTerminal ==
    [][(Ready /\ last'.op \in {"Place", "Finalize", "PayGet", "PayPost"})
       => \A id \in 1..Len(orders) :
              orders[id].status = PaidStatusId =>
                  /\ orders'[id].status = PaidStatusId
                  /\ orders'[id].totalCost = orders[id].totalCost]_vars

\* C23: within one session, a Pay POST does not consume the order id: it
\* leaves the session as it was and, while the order exists, answers 200 and
\* leaves the order paid, however often it is repeated. A Pay GET removes the
\* id, only a successful Finalize of the session stores one again, and a Pay
\* GET or Pay POST of a session without an id fails with 400 and changes no
\* order; so a Pay POST that follows a served Pay GET fails and the sequence
\* Finalize, Pay GET, Pay POST leaves the order in pending-payment status.
C23_PostRepeatsGetConsumes ==
    [][/\ (Ready /\ last'.op = "PayPost") =>
            /\ session' = session
            /\ (/\ session[last'.session] # NoOrderId
                /\ OrderExists(orders, session[last'.session]))
               => /\ last'.status = HTTP_200_OK
                  /\ orders'[session[last'.session]].status = 3
       /\ (Ready /\ last'.op = "PayGet") =>
            session'[last'.session] = NoOrderId
       /\ (/\ Ready /\ last'.op \in {"PayGet", "PayPost"}
           /\ session[last'.session] = NoOrderId)
          => last'.status = HTTP_400_BAD_REQUEST /\ orders' = orders
       /\ \A s \in Sessions :
            (session[s] = NoOrderId /\ session'[s] # NoOrderId) =>
                /\ last'.op = "Finalize" /\ last'.session = s
                /\ last'.status = HTTP_201_CREATED
       /\ undo'.phase = "repost" =>
            last'.status = HTTP_400_BAD_REQUEST /\ orders' = orders
      ]_vars

\* Finalize, Pay GET, Pay POST in one session: the POST is refused and the
\* order is still pending payment
C23_Witness ==
    /\ last.op = "PayPost" /\ last.status = HTTP_400_BAD_REQUEST
    /\ undo.phase = "repost" /\ undo.session = last.session
    /\ OrderExists(orders, undo.order)
    /\ orders[undo.order].status = PendingStatusId

\* the user each session is logged in as
SessionUser == [s \in Sessions |-> IF s = "s1" THEN "u1" ELSE "u2"]

\* C24 as stated: Finalize and Pay modify only orders owned by the requesting
\* user: a request of a session logged in as v changes no status,
\* deliveryType, paymentType or totalCost of an order of another user u.
C24_OnlyOwnerModifies ==
    [][(Ready /\ last'.op \in {"Finalize", "PayGet", "PayPost"})
       => \A id \in 1..Len(orders) :
              orders[id].user # SessionUser[last'.session] =>
                  /\ orders'[id].status = orders[id].status
                  /\ orders'[id].deliveryType = orders[id].deliveryType
                  /\ orders'[id].paymentType = orders[id].paymentType
                  /\ orders'[id].totalCost = orders[id].totalCost]_vars

\* C25 as stated: a failed Place is all-or-nothing: when Place answers with
\* anything but success, the persisted orders with their line items and the
\* cart items are exactly as they were before the request.
C25_FailedPlaceChangesNothing ==
    [][(Ready /\ last'.op = "Place" /\ last'.status # HTTP_201_CREATED)
       => (orders' = orders /\ cartItems' = cartItems)]_vars

\* C26 as stated: Remove never increases a quantity: for every count of the
\* request, zero and negative ones included, every line item stored after
\* Remove(p, count) was there before with a count at least as large, and the
\* line items of other products and other carts are unchanged.
C26_RemoveNeverIncreases ==
    [][(Ready /\ last'.op = "Remove")
       => /\ \A r \in cartItems' :
                \E q \in cartItems : q.id = r.id /\ r.count <= q.count
          /\ \A q \in cartItems :
                (q.cart # last'.user \/ q.product # last'.product)
                    => q \in cartItems']_vars

====
